---- MODULE Spec2Model ----
(***************************************************************************)
(* A model of src/utils.py (Oppia's common utility functions).             *)
(*                                                                         *)
(*   Spec       the datastore operations: get_new_id, create_new_          *)
(*              exploration, create_new_state, delete_exploration and      *)
(*              get_augmented_user, run by concurrent request handlers.    *)
(*              Every action holds exactly one datastore call (a get, a    *)
(*              query, a put or a delete), which is the grain at which     *)
(*              concurrent requests interleave.                            *)
(*   SerialSpec the same operations, one after the other.                  *)
(*   FairSerialSpec  SerialSpec with the running handler never stopping.   *)
(*   JinjaSpec  parse_with_jinja, statement by statement, called twice.    *)
(*   EncodeSpec encode_strings_as_ascii as a function of its argument.     *)
(*                                                                         *)
(* Strings are sequences of code points (unicode) or of bytes (str), so    *)
(* that UTF-8 encoding and '%s%s' formatting are computed, not assumed.    *)
(***************************************************************************)
EXTENDS Integers, Sequences, FiniteSets, TLC

VARIABLES
    \* ---- the datastore (Spec)
    exploration_store,  \* Exploration entities by id
    state_store,        \* State entities by id
    augmented_users,    \* AugmentedUser entities, in order of creation
    \* ---- the request handlers (Spec)
    pc,                 \* each handler's position
    loc,                \* each handler's local variables
    calls,              \* operations started so far
    \* ---- observations (Spec)
    returned,           \* the (entity, id) pairs get_new_id has returned
    live,               \* those of them not deleted since
    last,               \* the latest return of get_new_id
    created,            \* the latest return of create_new_exploration
    overlap,            \* overlap[p]: another operation ran during p's
    serialised,         \* no two operations have overlapped so far
    \* ---- parse_with_jinja (JinjaSpec)
    jpc, jargs, heap, jloc, logging_info, jresult, jcall, jfirst,
    \* ---- encode_strings_as_ascii (EncodeSpec)
    epc, eobj, eresult

dsVars == <<exploration_store, state_store, augmented_users, pc, loc, calls,
            returned, live, last, created, overlap, serialised>>
jinjaVars == <<jpc, jargs, heap, jloc, logging_info, jresult, jcall, jfirst>>
encodeVars == <<epc, eobj, eresult>>
vars == <<dsVars, jinjaVars, encodeVars>>

(***************************************************************************)
(* Bounds.                                                                 *)
(***************************************************************************)
\* Operations started in one behaviour of Spec, where they overlap.
MaxCalls == 2

\* Operations started in one behaviour of SerialSpec, one after the other.
MaxSerialCalls == 3

\* The request handlers.  A request goes to the lowest idle one.
Procs == {1, 2}

\* State names, as code points: u'\xe9' and u'\xe91'.  The first with the
\* counter 1 appended is the second.
Names == {<<233>>, <<233, 49>>}

\* Exploration titles.
Titles == {<<233>>}

NoUser == "None"
Users == {NoUser, "u1"}

(***************************************************************************)
(* Strings and identifiers.                                                *)
(***************************************************************************)
\* unicode.encode('utf-8') for code points below 0x800.
RECURSIVE Utf8(_)
Utf8(s) ==
    IF s = <<>> THEN <<>>
    ELSE LET c == Head(s) IN
         (IF c < 128 THEN <<c>>
          ELSE <<192 + (c \div 64), 128 + (c % 64)>>) \o Utf8(Tail(s))

\* '%s' % n for an int n >= 0: its decimal digits, as ASCII bytes.
RECURSIVE Str(_)
Str(n) ==
    IF n < 10 THEN <<48 + n>>
    ELSE Str(n \div 10) \o <<48 + (n % 10)>>

\* base64.urlsafe_b64encode(hashlib.sha1(bytes).digest())[:10].  SHA-1 is not
\* computed: the identifier is a token naming the bytes hashed (a
\* deterministic function without collisions on the inputs of the model).
UrlsafeB64Sha1(bytes) == [kind |-> "sha1", of |-> bytes]

NoId == [kind |-> "none", of |-> <<>>]
\* The explicit exploration_id '0' of a demo exploration.
GivenId == [kind |-> "given", of |-> <<48>>]

\* The candidate computed before the loop.
InitialId(entity_name) == UrlsafeB64Sha1(Utf8(entity_name))

\* RetryId with the suffix one behind the counter.
RetryIdCounterFromZero(entity_name, seed) ==
    UrlsafeB64Sha1(Utf8(entity_name) \o Str(seed - 1))

\* The candidate computed in the loop, after seed += 1.
RetryId(entity_name, seed) ==
    UrlsafeB64Sha1(Utf8(entity_name) \o Str(seed))

StoredIds(entity) ==
    IF entity = "Exploration" THEN DOMAIN exploration_store
    ELSE DOMAIN state_store

\* GetById reading the Exploration kind whatever the entity.
GetByIdWrongKind(entity, id) == id \in DOMAIN exploration_store

\* GetById finding nothing.
GetByIdNeverFound(entity, id) == FALSE

\* entity.get_by_id(new_id), as the loop's condition reads it.
GetById(entity, id) == id \in StoredIds(entity)

(***************************************************************************)
(* The datastore operations.                                               *)
(***************************************************************************)
NoExploration ==
    [id |-> NoId, init_state |-> NoId, states |-> <<>>, owner |-> NoUser,
     title |-> <<>>]

NoAugmentedUser == [idx |-> 0, editable_explorations |-> <<>>]

Idle ==
    [user |-> NoUser, title |-> <<>>, name |-> <<>>,
     entity |-> "none", entity_name |-> <<>>, new_id |-> NoId, seed |-> 0,
     checks |-> 0, exploration_id |-> NoId, state_id |-> NoId,
     exploration |-> NoExploration, augmented_user |-> NoAugmentedUser,
     todo |-> <<>>]

\* The body of get_new_id up to the loop: the first candidate, seed = 0.
EnterGetNewId(l, entity, entity_name) ==
    [l EXCEPT !.entity = entity, !.entity_name = entity_name,
              !.new_id = InitialId(entity_name), !.seed = 0, !.checks = 0]

\* The entity as its fields, without the key it is stored under.
Fields(e) ==
    [init_state |-> e.init_state, states |-> e.states, owner |-> e.owner,
     title |-> e.title]

\* The entity stored under id, as the object a handler holds.
Loaded(id) ==
    [id |-> id, init_state |-> exploration_store[id].init_state,
     states |-> exploration_store[id].states,
     owner |-> exploration_store[id].owner,
     title |-> exploration_store[id].title]

\* entity.put(): the store with the object written under its key.
Put(store, id, fields) ==
    [k \in DOMAIN store \cup {id} |-> IF k = id THEN fields ELSE store[k]]

\* key.delete(): the store without the key.
Delete(store, id) == [k \in DOMAIN store \ {id} |-> store[k]]

Active(p) == pc[p] # "idle"

Others == UNCHANGED <<jinjaVars, encodeVars>>

\* How the operations are scheduled: freely, or one after the other.
Overlapping == [max |-> MaxCalls, serial |-> FALSE]
OneByOne == [max |-> MaxSerialCalls, serial |-> TRUE]

\* An operation starts on p.  Observation: it overlaps whatever is running.
Begin(p, sched) ==
    /\ pc[p] = "idle"
    /\ calls < sched.max
    /\ sched.serial => \A q \in Procs : ~Active(q)
    /\ Others
    /\ \A q \in Procs : q < p => Active(q)
    /\ calls' = calls + 1
    /\ overlap' = [q \in Procs |->
                     IF q = p THEN \E r \in Procs \ {p} : Active(r)
                     ELSE overlap[q] \/ Active(q)]
    /\ serialised' = (serialised /\ \A r \in Procs \ {p} : ~Active(r))

\* Observation: p's operation is over.
End(p) ==
    /\ overlap' = [overlap EXCEPT ![p] = FALSE]
    /\ UNCHANGED <<calls, serialised>>
    /\ Others

Keep == UNCHANGED <<calls, overlap, serialised>> /\ Others

history == <<returned, live, last, created>>

NoReturn ==
    [entity |-> "none", name |-> <<>>, id |-> NoId, checks |-> 0,
     fresh |-> TRUE, first_free |-> 0, quiet |-> TRUE, again |-> FALSE,
     again_live |-> FALSE]

ProbePcs == {"cne_exp_probe", "cne_state_probe", "cns_probe"}

\* The least k whose candidate is not stored (the stored ids are finitely
\* many and the candidates differ, so k is at most their number).
CandidateAt(entity_name, k) ==
    IF k = 0 THEN UrlsafeB64Sha1(Utf8(entity_name))
    ELSE UrlsafeB64Sha1(Utf8(entity_name) \o Str(k))

FirstFree(entity, entity_name) ==
    CHOOSE k \in 0 .. Cardinality(StoredIds(entity)) :
        /\ CandidateAt(entity_name, k) \notin StoredIds(entity)
        /\ \A j \in 0 .. k - 1 : CandidateAt(entity_name, j) \in StoredIds(entity)

\* ---- get_new_id
\* while entity.get_by_id(new_id): seed += 1; new_id = ...
GetNewIdRetry(p) ==
    /\ pc[p] \in ProbePcs
    /\ GetById(loc[p].entity, loc[p].new_id)
    /\ loc' = [loc EXCEPT ![p].seed = @ + 1,
                          ![p].checks = @ + 1,
                          ![p].new_id = RetryId(loc[p].entity_name,
                                                loc[p].seed + 1)]
    /\ UNCHANGED <<exploration_store, state_store, augmented_users, pc, history>>
    /\ Keep

\* The loop's condition is false: return new_id, and the caller goes on.
GetNewIdReturn(p) ==
    /\ pc[p] \in ProbePcs
    /\ ~GetById(loc[p].entity, loc[p].new_id)
    /\ LET r == <<loc[p].entity, loc[p].new_id>>
       IN /\ last' = [entity |-> loc[p].entity,
                      name |-> loc[p].entity_name,
                      id |-> loc[p].new_id,
                      checks |-> loc[p].checks + 1,
                      fresh |-> loc[p].new_id \notin StoredIds(loc[p].entity),
                      first_free |-> FirstFree(loc[p].entity,
                                               loc[p].entity_name),
                      quiet |-> ~overlap[p],
                      again |-> r \in returned,
                      again_live |-> r \in live]
          /\ returned' = returned \cup {r}
          /\ live' = live \cup {r}
          /\ UNCHANGED created
    /\ IF pc[p] = "cne_exp_probe"
       THEN \* exploration_id = get_new_id(...); state_id = get_new_id(State, ...
            /\ loc' = [loc EXCEPT ![p] =
                        EnterGetNewId(
                          [loc[p] EXCEPT !.exploration_id = loc[p].new_id],
                          "State", loc[p].name)]
            /\ pc' = [pc EXCEPT ![p] = "cne_state_probe"]
       ELSE /\ loc' = [loc EXCEPT ![p].state_id = loc[p].new_id,
                                  ![p].checks = 0]
            /\ pc' = [pc EXCEPT ![p] = IF pc[p] = "cne_state_probe"
                                       THEN "cne_put" ELSE "cns_create"]
    /\ UNCHANGED <<exploration_store, state_store, augmented_users>>
    /\ Keep

\* ---- create_new_exploration
NotCreated ==
    [returned |-> FALSE, user |-> NoUser, alone |-> TRUE,
     exploration |-> TRUE, augmented_user |-> TRUE]

InList(x, list) == \E i \in 1 .. Len(list) : list[i] = x

\* Observation: what create_new_exploration leaves in the datastore (es, ss,
\* us) when it returns exploration e with the initial state sid, having
\* used the AugmentedUser a for the user.
Observed(p, es, ss, us, e, sid, a) ==
    [returned |-> TRUE,
     user |-> loc[p].user,
     alone |-> ~overlap[p],
     exploration |->
        /\ e.id \in DOMAIN es
        /\ sid \in DOMAIN ss
        /\ es[e.id].init_state = sid
        /\ es[e.id].states = <<sid>>,
     augmented_user |->
        loc[p].user # NoUser =>
           /\ us[a.idx].user = loc[p].user
           /\ InList(e.id, us[a.idx].editable_explorations)]

CreateNewExploration(p, sched, user, title, exploration_id, init_state_name) ==
    /\ Begin(p, sched)
    /\ LET l == [Idle EXCEPT !.user = user, !.title = title,
                             !.name = init_state_name,
                             !.exploration_id = exploration_id]
       IN IF exploration_id = NoId
          THEN /\ loc' = [loc EXCEPT ![p] =
                            EnterGetNewId(l, "Exploration", title)]
               /\ pc' = [pc EXCEPT ![p] = "cne_exp_probe"]
          ELSE /\ loc' = [loc EXCEPT ![p] =
                            EnterGetNewId(l, "State", init_state_name)]
               /\ pc' = [pc EXCEPT ![p] = "cne_state_probe"]
    /\ UNCHANGED <<exploration_store, state_store, augmented_users, history>>

\* exploration = Exploration(id=..., init_state=fake_state_key, owner=user,
\* ...); exploration.title = title; exploration.put().  The titles of the
\* model are not empty; category is carried nowhere and left out; states is
\* empty until it is set.
CnePutFake(p) ==
    /\ pc[p] = "cne_put"
    /\ LET e == [id |-> loc[p].exploration_id,
                 init_state |-> loc[p].state_id,
                 states |-> <<>>,
                 owner |-> loc[p].user,
                 title |-> loc[p].title]
       IN /\ loc' = [loc EXCEPT ![p].exploration = e]
          /\ exploration_store' = Put(exploration_store, e.id, Fields(e))
    /\ pc' = [pc EXCEPT ![p] = "cne_create"]
    /\ UNCHANGED <<state_store, augmented_users, history>>
    /\ Keep

\* State.create(state_id, exploration, name): the State entity is stored
\* under state_id, and its key is the fake key made of state_id.
StateCreate(p, next) ==
    /\ state_store' = Put(state_store, loc[p].state_id,
                          [name |-> loc[p].name,
                           exploration |-> loc[p].exploration.id])
    /\ pc' = [pc EXCEPT ![p] = next]

CneStateCreate(p) ==
    /\ pc[p] = "cne_create"
    /\ StateCreate(p, "cne_put_real")
    /\ UNCHANGED <<exploration_store, augmented_users, loc, history>>
    /\ Keep

\* CnePutReal without exploration.states = [new_init_state.key].
CnePutRealForgetsStates(p) ==
    /\ pc[p] = "cne_put_real"
    /\ LET e == [loc[p].exploration EXCEPT
                    !.init_state = loc[p].state_id]
       IN /\ exploration_store' = Put(exploration_store, e.id, Fields(e))
          /\ IF loc[p].user # NoUser
             THEN /\ loc' = [loc EXCEPT ![p].exploration = e]
                  /\ pc' = [pc EXCEPT ![p] = "cne_get_user"]
                  /\ UNCHANGED created
                  /\ Keep
             ELSE /\ loc' = [loc EXCEPT ![p] = Idle]
                  /\ pc' = [pc EXCEPT ![p] = "idle"]
                  /\ created' = Observed(p, exploration_store', state_store,
                                         augmented_users, e, loc[p].state_id,
                                         loc[p].augmented_user)
                  /\ End(p)
    /\ UNCHANGED <<state_store, augmented_users, returned, live, last>>

\* exploration.init_state = new_init_state.key; exploration.states =
\* [new_init_state.key]; exploration.put(); and, without a user, return
\* exploration.
CnePutReal(p) ==
    /\ pc[p] = "cne_put_real"
    /\ LET e == [loc[p].exploration EXCEPT
                    !.init_state = loc[p].state_id,
                    !.states = <<loc[p].state_id>>]
       IN /\ exploration_store' = Put(exploration_store, e.id, Fields(e))
          /\ IF loc[p].user # NoUser
             THEN /\ loc' = [loc EXCEPT ![p].exploration = e]
                  /\ pc' = [pc EXCEPT ![p] = "cne_get_user"]
                  /\ UNCHANGED created
                  /\ Keep
             ELSE /\ loc' = [loc EXCEPT ![p] = Idle]
                  /\ pc' = [pc EXCEPT ![p] = "idle"]
                  /\ created' = Observed(p, exploration_store', state_store,
                                         augmented_users, e, loc[p].state_id,
                                         loc[p].augmented_user)
                  /\ End(p)
    /\ UNCHANGED <<state_store, augmented_users, returned, live, last>>

\* ---- get_augmented_user
Matching(user) ==
    {i \in 1 .. Len(augmented_users) : augmented_users[i].user = user}

\* The query finds an AugmentedUser of this user (any one, when concurrent
\* calls have stored several).
GetAugmentedUserFound(p) ==
    /\ pc[p] = "cne_get_user"
    /\ \E i \in Matching(loc[p].user) :
         loc' = [loc EXCEPT ![p].augmented_user =
                   [idx |-> i,
                    editable_explorations |->
                        augmented_users[i].editable_explorations]]
    /\ pc' = [pc EXCEPT ![p] = "cne_append"]
    /\ UNCHANGED <<exploration_store, state_store, augmented_users, history>>
    /\ Keep

\* The query finds none.
GetAugmentedUserMissing(p) ==
    /\ pc[p] = "cne_get_user"
    /\ Matching(loc[p].user) = {}
    /\ pc' = [pc EXCEPT ![p] = "cne_new_user"]
    /\ UNCHANGED <<exploration_store, state_store, augmented_users, loc, history>>
    /\ Keep

\* augmented_user = AugmentedUser(user=user); augmented_user.put()
GetAugmentedUserCreate(p) ==
    /\ pc[p] = "cne_new_user"
    /\ augmented_users' = Append(augmented_users,
                                 [user |-> loc[p].user,
                                  editable_explorations |-> <<>>])
    /\ loc' = [loc EXCEPT ![p].augmented_user =
                 [idx |-> Len(augmented_users) + 1,
                  editable_explorations |-> <<>>]]
    /\ pc' = [pc EXCEPT ![p] = "cne_append"]
    /\ UNCHANGED <<exploration_store, state_store, history>>
    /\ Keep

\* augmented_user.editable_explorations.append(exploration.key);
\* augmented_user.put(); return exploration
CneAppendEditable(p) ==
    /\ pc[p] = "cne_append"
    /\ LET a == loc[p].augmented_user
           list == Append(a.editable_explorations, loc[p].exploration.id)
       IN /\ augmented_users' =
               [augmented_users EXCEPT ![a.idx] =
                  [user |-> loc[p].user, editable_explorations |-> list]]
          /\ created' = Observed(p, exploration_store, state_store,
                                 augmented_users', loc[p].exploration,
                                 loc[p].state_id, a)
    /\ loc' = [loc EXCEPT ![p] = Idle]
    /\ pc' = [pc EXCEPT ![p] = "idle"]
    /\ UNCHANGED <<exploration_store, state_store, returned, live, last>>
    /\ End(p)

\* ---- create_new_state
\* The caller holds the exploration as it read it from the datastore.
CreateNewState(p, sched, id, state_name) ==
    /\ id \in DOMAIN exploration_store
    /\ Begin(p, sched)
    /\ loc' = [loc EXCEPT ![p] =
                 EnterGetNewId([Idle EXCEPT !.name = state_name,
                                            !.exploration = Loaded(id)],
                               "State", state_name)]
    /\ pc' = [pc EXCEPT ![p] = "cns_probe"]
    /\ UNCHANGED <<exploration_store, state_store, augmented_users, history>>

CnsStateCreate(p) ==
    /\ pc[p] = "cns_create"
    /\ StateCreate(p, "cns_put")
    /\ UNCHANGED <<exploration_store, augmented_users, loc, history>>
    /\ Keep

\* exploration.states.append(state.key); exploration.put(); return state
CnsPut(p) ==
    /\ pc[p] = "cns_put"
    /\ LET e == [loc[p].exploration EXCEPT
                    !.states = Append(@, loc[p].state_id)]
       IN exploration_store' = Put(exploration_store, e.id, Fields(e))
    /\ pc' = [pc EXCEPT ![p] = "idle"]
    /\ loc' = [loc EXCEPT ![p] = Idle]
    /\ UNCHANGED <<state_store, augmented_users, history>>
    /\ End(p)

\* ---- delete_exploration
DeleteExploration(p, sched, id) ==
    /\ id \in DOMAIN exploration_store
    /\ Begin(p, sched)
    /\ loc' = [loc EXCEPT ![p] = [Idle EXCEPT !.exploration = Loaded(id)]]
    /\ pc' = [pc EXCEPT ![p] = "del_query"]
    /\ UNCHANGED <<exploration_store, state_store, augmented_users, history>>

\* The AugmentedUsers from the i-th on whose editable_explorations hold
\* key, as the query fetches them.
RECURSIVE Fetched(_, _)
Fetched(i, key) ==
    IF i > Len(augmented_users) THEN <<>>
    ELSE (IF InList(key, augmented_users[i].editable_explorations)
          THEN <<[idx |-> i, user |-> augmented_users[i].user,
                  editable_explorations |->
                      augmented_users[i].editable_explorations]>>
          ELSE <<>>) \o Fetched(i + 1, key)

\* list.remove(x): the list without its first x.
RECURSIVE Remove(_, _)
Remove(list, x) ==
    IF list = <<>> THEN <<>>
    ELSE IF Head(list) = x THEN Tail(list)
    ELSE <<Head(list)>> \o Remove(Tail(list), x)

\* AugmentedUser.query().filter(editable_explorations == exploration.key)
DelQuery(p) ==
    /\ pc[p] = "del_query"
    /\ loc' = [loc EXCEPT ![p].todo = Fetched(1, loc[p].exploration.id)]
    /\ pc' = [pc EXCEPT ![p] = "del_loop"]
    /\ UNCHANGED <<exploration_store, state_store, augmented_users, history>>
    /\ Keep

\* augmented_user.editable_explorations.remove(exploration.key);
\* augmented_user.put()
DelRemoveEditable(p) ==
    /\ pc[p] = "del_loop"
    /\ loc[p].todo # <<>>
    /\ LET a == Head(loc[p].todo)
       IN augmented_users' =
            [augmented_users EXCEPT ![a.idx] =
               [user |-> a.user,
                editable_explorations |->
                    Remove(a.editable_explorations, loc[p].exploration.id)]]
    /\ loc' = [loc EXCEPT ![p].todo = Tail(@)]
    /\ UNCHANGED <<exploration_store, state_store, pc, history>>
    /\ Keep

\* exploration.delete()
DelDelete(p) ==
    /\ pc[p] = "del_loop"
    /\ loc[p].todo = <<>>
    /\ exploration_store' = Delete(exploration_store, loc[p].exploration.id)
    /\ live' = live \ {<<"Exploration", loc[p].exploration.id>>}
    /\ UNCHANGED <<returned, last, created>>
    /\ pc' = [pc EXCEPT ![p] = "idle"]
    /\ loc' = [loc EXCEPT ![p] = Idle]
    /\ UNCHANGED <<state_store, augmented_users>>
    /\ End(p)

(***************************************************************************)
(* parse_with_jinja and encode_strings_as_ascii at rest.                   *)
(***************************************************************************)
JinjaAtRest ==
    /\ jpc = "off" /\ jargs = <<>> /\ heap = <<>> /\ jloc = <<>>
    /\ logging_info = <<>> /\ jresult = <<>> /\ jcall = 0 /\ jfirst = <<>>

EncodeAtRest == epc = "off" /\ eobj = <<>> /\ eresult = <<>>

DatastoreAtRest ==
    /\ exploration_store = <<>> /\ state_store = <<>>
    /\ augmented_users = <<>>
    /\ pc = [p \in Procs |-> "idle"]
    /\ loc = [p \in Procs |-> Idle]
    /\ calls = 0 /\ returned = {} /\ live = {} /\ last = NoReturn
    /\ created = NotCreated
    /\ overlap = [p \in Procs |-> FALSE]
    /\ serialised = TRUE

(***************************************************************************)
(* The datastore specification.                                            *)
(***************************************************************************)
Init == DatastoreAtRest /\ JinjaAtRest /\ EncodeAtRest

Step(p, sched) ==
    \/ \E user \in Users, title \in Titles, id \in {NoId, GivenId},
          init_state_name \in Names :
         CreateNewExploration(p, sched, user, title, id, init_state_name)
    \/ GetNewIdRetry(p)
    \/ GetNewIdReturn(p)
    \/ CnePutFake(p)
    \/ CneStateCreate(p)
    \/ CnePutReal(p)
    \/ GetAugmentedUserFound(p)
    \/ GetAugmentedUserMissing(p)
    \/ GetAugmentedUserCreate(p)
    \/ CneAppendEditable(p)
    \/ \E id \in DOMAIN exploration_store, state_name \in Names :
         CreateNewState(p, sched, id, state_name)
    \/ CnsStateCreate(p)
    \/ CnsPut(p)
    \/ \E id \in DOMAIN exploration_store : DeleteExploration(p, sched, id)
    \/ DelQuery(p)
    \/ DelRemoveEditable(p)
    \/ DelDelete(p)

Next == \E p \in Procs : Step(p, Overlapping)

Spec == Init /\ [][Next]_vars

\* The operations run one after the other: none starts while one runs.
SerialNext == \E p \in Procs : Step(p, OneByOne)

SerialSpec == Init /\ [][SerialNext]_vars

\* A request handler that can take a step eventually takes it.
FairSerialSpec == SerialSpec /\ WF_vars(SerialNext)

(***************************************************************************)
(* get_new_id: the candidates and their order.                             *)
(***************************************************************************)
\* C1: get_new_id probes the candidates in order, c0 = H(n) and
\* c_k = H(n + str(k)) for k >= 1: while it probes, the candidate in hand
\* after k 'present' answers is c_k and the counter is k; and the id it
\* returns after k 'present' answers and one 'absent' is c_k.
C1_CandidatesInOrder ==
    /\ \A p \in Procs :
         pc[p] \in ProbePcs =>
           /\ loc[p].seed = loc[p].checks
           /\ loc[p].new_id = CandidateAt(loc[p].entity_name, loc[p].checks)
    /\ last.entity # "none" =>
         last.id = CandidateAt(last.name, last.checks - 1)

\* A call has returned the candidate with the suffix 1, after one 'present'.
C1_Witness ==
    /\ last.checks = 2
    /\ last.id = UrlsafeB64Sha1(Utf8(last.name) \o <<49>>)

(***************************************************************************)
(* get_new_id: uniqueness, when the operations run one after the other.    *)
(***************************************************************************)
\* C2, as claimed: the identifier get_new_id returns is not the id of a
\* stored entity of its kind at the moment of return, and no two calls on one
\* kind ever return the same identifier.
C2_NeverTheSameId == last.fresh /\ ~last.again

\* C2, amended: the identifier get_new_id returns is not the id of a stored
\* entity of its kind at the moment of return, and it is the identifier of
\* no earlier call on that kind unless the entity stored under it has been
\* deleted since.
C2_UniqueWhileStored == last.fresh /\ ~last.again_live

\* A call found the first candidate of its name taken by an entity that an
\* earlier call's identifier still names, and returned another identifier.
C2_Witness ==
    /\ last.checks >= 2
    /\ <<last.entity, CandidateAt(last.name, 0)>> \in live
    /\ last.id # CandidateAt(last.name, 0)

(***************************************************************************)
(* get_new_id: the race between the existence check and the store.         *)
(***************************************************************************)
\* The handlers that hold a State id from get_new_id and have not stored the
\* State yet.
Holding == {"cne_put", "cne_create", "cns_create"}

Racing(p, q) ==
    /\ p # q
    /\ pc[p] \in Holding /\ pc[q] \in Holding
    /\ loc[p].name = loc[q].name
    /\ loc[p].state_id \notin DOMAIN state_store
    /\ loc[q].state_id \notin DOMAIN state_store

\* C3: nothing separates the existence check from the store: whenever two
\* callers have run get_new_id for the same state name and neither has stored
\* its State yet, both hold the same identifier.
C3_RaceGivesTheSameId ==
    \A p, q \in Procs : Racing(p, q) => loc[p].state_id = loc[q].state_id

\* Two callers hold the same identifier, both having seen it absent.
C3_Witness ==
    \E p, q \in Procs : Racing(p, q) /\ loc[p].state_id = loc[q].state_id

(***************************************************************************)
(* get_new_id: the number of existence checks.                             *)
(***************************************************************************)
Returns(p, from, to) == (pc[p] = from) ~> (pc[p] = to)

\* C8: a call whose candidates are not all stored returns, after exactly k+1
\* existence checks, k being the index of the first candidate not stored;
\* nothing but an 'absent' answer ends the loop.
C8_BoundedChecks ==
    /\ [](last.entity # "none" => last.checks = last.first_free + 1)
    /\ \A p \in Procs :
         /\ Returns(p, "cne_exp_probe", "cne_state_probe")
         /\ Returns(p, "cne_state_probe", "cne_put")
         /\ Returns(p, "cns_probe", "cns_create")

\* A call returned after three checks: two candidates were stored.
C8_Witness == last.checks = 3 /\ last.first_free = 2

(***************************************************************************)
(* create_new_exploration: the exploration before and after its state.     *)
(***************************************************************************)
Stored(p) == exploration_store[loc[p].exploration.id]

\* The exploration is stored and names an initial state that is not.
BeforeItsState(p) ==
    /\ loc[p].exploration.id \in DOMAIN exploration_store
    /\ Stored(p).init_state \notin DOMAIN state_store
    /\ ~InList(Stored(p).init_state, Stored(p).states)

\* C9, as claimed: between the first put and State.create the stored
\* exploration names an initial state that is not stored and not in its
\* states; and once create_new_exploration has returned, the stored
\* exploration's init_state is the created state, states holds exactly that
\* state, and the user's AugmentedUser lists the exploration.
C9_AfterReturn ==
    /\ \A p \in Procs :
         pc[p] = "cne_create" /\ ~overlap[p] => BeforeItsState(p)
    /\ created.exploration /\ created.augmented_user

\* C9, amended: the same, for a create_new_exploration that no other
\* operation overlapped.
C9_AfterReturnAlone ==
    /\ \A p \in Procs :
         pc[p] = "cne_create" /\ ~overlap[p] => BeforeItsState(p)
    /\ created.alone => created.exploration /\ created.augmented_user

\* create_new_exploration has returned for a user, alone.
C9_Witness == created.returned /\ created.alone /\ created.user # NoUser

(***************************************************************************)
(* parse_with_jinja.                                                       *)
(*                                                                         *)
(* A template is a sequence of lexemes: the start of a print statement     *)
(* with its name ("{{ a"), the end of a print statement ("}}") and text.   *)
(* params and new_params are references into a heap of dicts, so that a    *)
(* write through one is seen through the other when both name one dict.    *)
(***************************************************************************)
\* Lexemes of one template.
MaxTemplateLen == 4

Lexemes == {"{{ a", "{{ b", "}}", " and "}

RECURSIVE SeqsUpTo(_, _)
SeqsUpTo(S, n) ==
    IF n = 0 THEN {<<>>}
    ELSE LET shorter == SeqsUpTo(S, n - 1)
         IN shorter \cup {Append(t, x) : t \in shorter, x \in S}

Templates == SeqsUpTo(Lexemes, MaxTemplateLen)

TemplateVars == {"a", "b"}
ValueOf(v) == IF v = "a" THEN "X" ELSE "Y"
ParamsChoices == {[v \in S |-> ValueOf(v)] : S \in SUBSET TemplateVars}
Defaults == {"", "?"}

IsVariableBegin(lexeme) == lexeme \in {"{{ a", "{{ b"}
NameOf(lexeme) == IF lexeme = "{{ a" THEN "a" ELSE "b"

\* Environment().parse(string): the nodes of the template, or the failure
\* of a print statement that is not closed.  "}}" outside a print statement
\* is text.
RECURSIVE Parse(_)
Parse(string) ==
    IF string = <<>> THEN [ok |-> TRUE, nodes |-> <<>>]
    ELSE IF IsVariableBegin(Head(string))
    THEN IF Len(string) >= 2 /\ string[2] = "}}"
         THEN LET rest == Parse(SubSeq(string, 3, Len(string)))
              IN [ok |-> rest.ok,
                  nodes |-> <<[node |-> "Name", v |-> NameOf(Head(string))]>>
                            \o rest.nodes]
         ELSE [ok |-> FALSE, nodes |-> <<>>]
    ELSE LET rest == Parse(Tail(string))
         IN [ok |-> rest.ok,
             nodes |-> <<[node |-> "TemplateData", v |-> Head(string)]>>
                       \o rest.nodes]

\* meta.find_undeclared_variables(ast): the names the template reads.
FindUndeclaredVariables(nodes) ==
    {nodes[i].v : i \in {j \in 1 .. Len(nodes) : nodes[j].node = "Name"}}

\* Template.render(context): text as it is, a name as its value in the
\* context, and as nothing when the context lacks it.
RECURSIVE Render(_, _)
Render(nodes, context) ==
    IF nodes = <<>> THEN ""
    ELSE LET n == Head(nodes)
         IN (IF n.node = "TemplateData" THEN n.v
             ELSE IF n.v \in DOMAIN context THEN context[n.v] ELSE "")
            \o Render(Tail(nodes), context)

\* dict[key] = value
SetItem(dict, key, value) ==
    [k \in DOMAIN dict \cup {key} |-> IF k = key THEN value ELSE dict[k]]

\* DeepCopy handing back the dict itself.
DeepCopyAliases(h, ref) == ref

\* copy.deepcopy(params): the reference of the copy, a new dict of heap h.
DeepCopy(h, ref) == Len(h) + 1

\* Missing taking every variable for missing.
MissingAlways(var, dict) == TRUE

\* var not in new_params
Missing(var, dict) == var \notin DOMAIN dict

\* Logged with new_params in the place of params.
LoggedNewParams(h, string, params, new_params) ==
    [string |-> string, params |-> h[new_params]]

\* logging.info('Cannot parse %s properly using %s', string, params)
Logged(h, string, params, new_params) ==
    [string |-> string, params |-> h[params]]

NoResult == [kind |-> "none", value |-> ""]
NoLocals == [variables |-> {}, new_params |-> 0]

JinjaInit ==
    /\ DatastoreAtRest /\ EncodeAtRest
    /\ jpc = "parse"
    /\ \E string \in Templates, given \in ParamsChoices, default \in Defaults :
         /\ heap = <<given>>
         /\ jargs = [string |-> string, params |-> 1, default |-> default,
                     given |-> given]
    /\ jloc = NoLocals
    /\ logging_info = <<>>
    /\ jresult = NoResult
    /\ jcall = 1
    /\ jfirst = NoResult

\* JParse returning an empty result where the parse fails.
JParseReturnsNone ==
    /\ jpc = "parse"
    /\ LET ast == Parse(jargs.string)
       IN IF ast.ok
          THEN /\ jloc' = [jloc EXCEPT !.variables =
                              FindUndeclaredVariables(ast.nodes)]
               /\ jpc' = "copy"
               /\ UNCHANGED jresult
          ELSE /\ jresult' = [kind |-> "string", value |-> ""]
               /\ jpc' = "returned"
               /\ UNCHANGED jloc
    /\ UNCHANGED <<jargs, heap, logging_info, jcall, jfirst, dsVars,
                   encodeVars>>

\* variables = meta.find_undeclared_variables(Environment().parse(string))
JParse ==
    /\ jpc = "parse"
    /\ LET ast == Parse(jargs.string)
       IN IF ast.ok
          THEN /\ jloc' = [jloc EXCEPT !.variables =
                              FindUndeclaredVariables(ast.nodes)]
               /\ jpc' = "copy"
               /\ UNCHANGED jresult
          ELSE /\ jresult' = [kind |-> "TemplateSyntaxError", value |-> ""]
               /\ jpc' = "raised"
               /\ UNCHANGED jloc
    /\ UNCHANGED <<jargs, heap, logging_info, jcall, jfirst, dsVars,
                   encodeVars>>

\* new_params = copy.deepcopy(params)
JCopy ==
    /\ jpc = "copy"
    /\ heap' = Append(heap, heap[jargs.params])
    /\ jloc' = [jloc EXCEPT !.new_params = DeepCopy(heap, jargs.params)]
    /\ jpc' = "loop"
    /\ UNCHANGED <<jargs, logging_info, jresult, jcall, jfirst, dsVars,
                   encodeVars>>

\* for var in variables: if var not in new_params: new_params[var] =
\* default; logging.info(...)
JDefault ==
    /\ jpc = "loop"
    /\ \E var \in jloc.variables :
         /\ Missing(var, heap[jloc.new_params])
         /\ heap' = [heap EXCEPT ![jloc.new_params] =
                       SetItem(@, var, jargs.default)]
         /\ logging_info' = Append(logging_info,
                                   Logged(heap', jargs.string, jargs.params,
                                          jloc.new_params))
         /\ jloc' = [jloc EXCEPT !.variables = @ \ {var}]
    /\ UNCHANGED <<jpc, jargs, jresult, jcall, jfirst, dsVars, encodeVars>>

\* for var in variables: var is in new_params
JKeep ==
    /\ jpc = "loop"
    /\ \E var \in jloc.variables :
         /\ ~Missing(var, heap[jloc.new_params])
         /\ jloc' = [jloc EXCEPT !.variables = @ \ {var}]
    /\ UNCHANGED <<jpc, jargs, heap, logging_info, jresult, jcall, jfirst,
                   dsVars, encodeVars>>

\* return Environment().from_string(string).render(new_params)
JRender ==
    /\ jpc = "loop"
    /\ jloc.variables = {}
    /\ jresult' = [kind |-> "string",
                   value |-> Render(Parse(jargs.string).nodes,
                                    heap[jloc.new_params])]
    /\ jpc' = "returned"
    /\ UNCHANGED <<jargs, heap, jloc, logging_info, jcall, jfirst, dsVars,
                   encodeVars>>

\* The caller calls again, with the same arguments.
JAgain ==
    /\ jpc \in {"returned", "raised"}
    /\ jcall = 1
    /\ jcall' = 2
    /\ jfirst' = jresult
    /\ jresult' = NoResult
    /\ jloc' = NoLocals
    /\ logging_info' = <<>>
    /\ jpc' = "parse"
    /\ UNCHANGED <<jargs, heap, dsVars, encodeVars>>

JinjaNext == JParse \/ JCopy \/ JDefault \/ JKeep \/ JRender \/ JAgain

JinjaSpec == JinjaInit /\ [][JinjaNext]_vars

(***************************************************************************)
(* parse_with_jinja: what the claims say of it.                            *)
(***************************************************************************)
\* The names a template reads, from its lexemes.
Reads(string) ==
    {NameOf(string[i]) : i \in {j \in 1 .. Len(string) :
                                  IsVariableBegin(string[j])}}

\* Every print statement of the template is closed.
WellFormed(string) ==
    \A i \in 1 .. Len(string) :
        IsVariableBegin(string[i]) => i < Len(string) /\ string[i + 1] = "}}"

\* The template with each name replaced by its value in given, or by default
\* when given lacks it.
RECURSIVE Substituted(_, _, _)
Substituted(string, given, default) ==
    IF string = <<>> THEN ""
    ELSE IF IsVariableBegin(Head(string))
    THEN (IF NameOf(Head(string)) \in DOMAIN given
          THEN given[NameOf(Head(string))] ELSE default)
         \o Substituted(SubSeq(string, 3, Len(string)), given, default)
    ELSE Head(string) \o Substituted(Tail(string), given, default)

\* C4: parse_with_jinja never changes the caller's params: at every point of
\* a call the dict has the keys and values it was given with; and a second
\* call with the same arguments ends as the first did, with the same string.
C4_ParamsNotMutated ==
    /\ heap[jargs.params] = jargs.given
    /\ jcall = 2 /\ jpc \in {"returned", "raised"} => jresult = jfirst

\* The second of two calls has returned, both having put a default for a
\* variable the params lack.
C4_Witness ==
    /\ jcall = 2 /\ jpc = "returned"
    /\ Reads(jargs.string) \ DOMAIN jargs.given # {}
    /\ heap[jloc.new_params] # jargs.given

\* C5: a well-formed template never fails, whatever params lacks: the call
\* returns the template with each variable that is a key of params replaced
\* by params' value and each other variable by default.
C5_DefaultsForMissing ==
    WellFormed(jargs.string) =>
        /\ jpc # "raised"
        /\ jpc = "returned" =>
             jresult = [kind |-> "string",
                        value |-> Substituted(jargs.string, jargs.given,
                                              jargs.default)]

\* A call has returned for a template that reads one variable params has and
\* one it lacks.
C5_Witness ==
    /\ jpc = "returned"
    /\ Reads(jargs.string) = {"a", "b"}
    /\ DOMAIN jargs.given = {"a"}
    /\ jargs.default = "?"
    /\ jresult.value = "X?"

\* C6: a call that returns has logged one record for each distinct variable
\* of the template that params lacks, none when it lacks none, and each
\* record holds the template and the params as the caller gave them.
C6_OneRecordPerMissing ==
    /\ jpc = "returned" =>
         Len(logging_info) =
             Cardinality(Reads(jargs.string) \ DOMAIN jargs.given)
    /\ \A i \in 1 .. Len(logging_info) :
         logging_info[i] = [string |-> jargs.string, params |-> jargs.given]

\* A call has returned for a template that reads twice a variable params
\* lacks, with one record.
C6_Witness ==
    /\ jpc = "returned"
    /\ jargs.string = <<"{{ a", "}}", "{{ a", "}}">>
    /\ jargs.given = <<>>
    /\ Len(logging_info) = 1

MaxListLen == 2

Value(type, number, chars, items) ==
    [type |-> type, number |-> number, chars |-> chars, items |-> items]

None == Value("NoneType", 0, <<>>, <<>>)

Hashables ==
    {Value("int", 1, <<>>, <<>>), Value("float", 1, <<>>, <<>>),
     Value("str", 0, <<97>>, <<>>), Value("unicode", 0, <<97>>, <<>>)}

Atoms == Hashables \cup {Value("set", 0, <<>>, <<>>)}

Dicts ==
    {Value("dict", 0, <<>>, <<>>)}
    \cup {Value("dict", 0, <<>>, <<[key |-> k, value |-> v]>>) :
            k \in Hashables, v \in Atoms}

Lists ==
    {Value("list", 0, <<>>, items) :
        items \in SeqsUpTo(Atoms \cup Dicts, MaxListLen)}

Objects == Atoms \cup Dicts \cup Lists

\* isinstance(obj, int) or isinstance(obj, set): obj; a str or a unicode:
\* str(obj); a list: the list of its items encoded; a dict: new_dict is
\* filled and the function ends without a return statement; else: obj.
RECURSIVE encode_strings_as_ascii(_)
encode_strings_as_ascii(obj) ==
    IF obj.type \in {"int", "set"} THEN obj
    ELSE IF obj.type \in {"str", "unicode"} THEN [obj EXCEPT !.type = "str"]
    ELSE IF obj.type = "list"
    THEN [obj EXCEPT !.items =
            [i \in 1 .. Len(obj.items) |-> encode_strings_as_ascii(obj.items[i])]]
    ELSE IF obj.type = "dict"
    THEN LET new_dict ==
               [obj EXCEPT !.items =
                  [i \in 1 .. Len(obj.items) |->
                     [key |-> encode_strings_as_ascii(obj.items[i].key),
                      value |-> encode_strings_as_ascii(obj.items[i].value)]]]
         IN None
    ELSE obj

EncodeInit ==
    /\ DatastoreAtRest /\ JinjaAtRest
    /\ epc = "call"
    /\ eobj \in Objects
    /\ eresult = None

\* result = encode_strings_as_ascii(obj)
EncodeCall ==
    /\ epc = "call"
    /\ eresult' = encode_strings_as_ascii(eobj)
    /\ epc' = "returned"
    /\ UNCHANGED <<eobj, dsVars, jinjaVars>>

EncodeNext == EncodeCall

EncodeSpec == EncodeInit /\ [][EncodeNext]_vars

\* The value of the same shape with every string a str: what C10 says the
\* function returns.
RECURSIVE Encoded(_)
Encoded(obj) ==
    IF obj.type \in {"str", "unicode"} THEN [obj EXCEPT !.type = "str"]
    ELSE IF obj.type = "list"
    THEN [obj EXCEPT !.items =
            [i \in 1 .. Len(obj.items) |-> Encoded(obj.items[i])]]
    ELSE IF obj.type = "dict"
    THEN [obj EXCEPT !.items =
            [i \in 1 .. Len(obj.items) |->
               [key |-> Encoded(obj.items[i].key),
                value |-> Encoded(obj.items[i].value)]]]
    ELSE obj

\* C10: encode_strings_as_ascii returns a value of the shape of its argument
\* with every string converted: a dict of the encoded keys and values for a
\* dict, the list of the encoded items for a list, and an int, a set or
\* another value as it is; never None for a dict.
C10_SameShape == epc = "returned" => eresult = Encoded(eobj)

====
